---------------------------- MODULE Spec2Model ----------------------------
(*************************************************************************)
(* Red-black trees with augmented summaries: the order-statistic tree of *)
(* ost.h (subtree sizes, select, rank) and the POM tree of pom.h (sum,   *)
(* maximum prefix sum and its position).                                 *)
(*                                                                       *)
(* A tree is a record [root, node] where node maps the address of every  *)
(* allocated node (the sentinel nil included) to its fields.  Every C++  *)
(* statement that writes a field becomes a functional update of that     *)
(* record, and every loop a recursive operator.                          *)
(*                                                                       *)
(* Addresses are opaque to the code (it only compares them for equality),*)
(* so a tree is kept up to a renaming of its addresses: between two      *)
(* public operations the n nodes of a tree sit at the addresses 1..n in  *)
(* in-order position (Normalize).                                        *)
(*************************************************************************)
EXTENDS Integers, Sequences, FiniteSets, Bags, TLC

(* Bounds of the model: the most nodes an order-statistic tree and a POM  *)
(* tree hold, and the greatest key.  Six nodes is the least number at     *)
(* which a remove meets a red sibling in deleteFixup.  The intervals      *)
(* [start, end) are four: two of one start with different ends, and two   *)
(* of one (start, end) with a gain and a loss, so that equal starts meet, *)
(* equal pairs differ in value, and prefix sums rise, fall and tie.       *)
MaxNodes == 6
MaxKey == 4
MaxIntervals == 6

Keys == 1..MaxKey
Intervals == {[start |-> 1, end |-> 2, value |-> 1], [start |-> 1, end |-> 3, value |-> -1],
              [start |-> 2, end |-> 3, value |-> 1], [start |-> 2, end |-> 3, value |-> -1]}

RED == "RED"
BLACK == "BLACK"

(* The address of the sentinel node *)
nil == 0

---------------------------------------------------------------------------
(* Field reads and writes, shared by both trees *)

left(t, x) == t.node[x].left
right(t, x) == t.node[x].right
parent(t, x) == t.node[x].parent
color(t, x) == t.node[x].color

setLeft(t, x, v) == [t EXCEPT !.node[x].left = v]
setRight(t, x, v) == [t EXCEPT !.node[x].right = v]
setParent(t, x, v) == [t EXCEPT !.node[x].parent = v]
setColor(t, x, c) == [t EXCEPT !.node[x].color = c]
setRoot(t, v) == [t EXCEPT !.root = v]

(* new: the lowest address that holds no node *)
newNode(t) == CHOOSE n \in 1..(Cardinality(DOMAIN t.node)) : n \notin DOMAIN t.node

(* delete: the node's storage is released *)
deleteNode(t, z) == [t EXCEPT !.node = [n \in (DOMAIN t.node) \ {z} |-> t.node[n]]]

(* The value of a pointer to a node that was deleted *)
freed == nil - 1

(* The history of the call in progress: the places it has passed, oldest  *)
(* first, each with the tree as it stood there.  The history is no field  *)
(* of the program; it records the order of the statements of one call.    *)
heap(t) == [root |-> t.root, node |-> t.node]

note(t, e) == [t EXCEPT !.log = Append(@, e)]

(* the return of leftRotate or rightRotate: down is the node that moved   *)
(* down, up the child that took its place                                 *)
atRotate(before, t, down, up) ==
    note(t, [at |-> "rotate", before |-> heap(before), tree |-> heap(t),
             down |-> down, up |-> up])

(* the test of the while loop of insertFixup or deleteFixup on cursor *)
atLoopTest(t, loop, cursor) ==
    note(t, [at |-> loop, tree |-> heap(t), cursor |-> cursor])

(* the statement after delete z: x is the node that took the place of the *)
(* spliced node, fix tells whether deleteFixup(x) follows                 *)
atDelete(t, z, x, fix) ==
    note(t, [at |-> "delete", tree |-> heap(t), z |-> z, x |-> x, fix |-> fix])

(* the call of updateAncestors(start) *)
atUpdateAncestors(t, start) ==
    note(t, [at |-> "updateAncestors", tree |-> heap(t), start |-> start])

(* The addresses of the subtree of x, in in-order position *)
RECURSIVE inorder(_, _)
inorder(t, x) ==
    IF x = nil THEN <<>>
    ELSE inorder(t, left(t, x)) \o <<x>> \o inorder(t, right(t, x))

(* The same tree with the node at in-order position i moved to address i. *)
(* The sentinel's parent field is the one pointer that can outlive the    *)
(* node it points to (transplant and remove write it, nothing resets it). *)
Normalize(t) ==
    LET s == inorder(t, t.root)
        at(p) == IF p = nil THEN nil
                 ELSE IF \E i \in 1..Len(s) : s[i] = p
                      THEN CHOOSE i \in 1..Len(s) : s[i] = p
                      ELSE freed
    IN  [root |-> at(t.root),
         node |-> [i \in 0..Len(s) |->
                     LET n == t.node[IF i = 0 THEN nil ELSE s[i]]
                     IN  [n EXCEPT !.left = at(@), !.right = at(@), !.parent = at(@)]],
         log |-> <<>>]

---------------------------------------------------------------------------
(* ost.h *)

OSTNode(k) == [key |-> k, color |-> RED, size |-> 1,
               left |-> nil, right |-> nil, parent |-> nil]

(* The constructor: the sentinel is black, has size 0 and points to itself *)
OrderStatisticTree ==
    [root |-> nil,
     node |-> (nil :> [key |-> 0, color |-> BLACK, size |-> 0,
                       left |-> nil, right |-> nil, parent |-> nil]),
     log |-> <<>>]

getSize(t, n) == IF n = nil THEN 0 ELSE t.node[n].size

setSize(t, x, s) == [t EXCEPT !.node[x].size = s]

leftRotate(t, x) ==
    LET y == right(t, x)
        s1(u) == setRight(u, x, left(u, y))
        s2(u) == IF left(u, y) # nil THEN setParent(u, left(u, y), x) ELSE u
        s3(u) == setParent(u, y, parent(u, x))
        s4(u) == IF parent(u, x) = nil THEN setRoot(u, y)
                 ELSE IF x = left(u, parent(u, x)) THEN setLeft(u, parent(u, x), y)
                 ELSE setRight(u, parent(u, x), y)
        s5(u) == setLeft(u, y, x)
        s6(u) == setParent(u, x, y)
        s7(u) == setSize(u, y, u.node[x].size)
        s8(u) == setSize(u, x, getSize(u, left(u, x)) + getSize(u, right(u, x)) + 1)
    IN  atRotate(t, s8(s7(s6(s5(s4(s3(s2(s1(t)))))))), x, y)

rightRotate(t, y) ==
    LET x == left(t, y)
        s1(u) == setLeft(u, y, right(u, x))
        s2(u) == IF right(u, x) # nil THEN setParent(u, right(u, x), y) ELSE u
        s3(u) == setParent(u, x, parent(u, y))
        s4(u) == IF parent(u, y) = nil THEN setRoot(u, x)
                 ELSE IF y = right(u, parent(u, y)) THEN setRight(u, parent(u, y), x)
                 ELSE setLeft(u, parent(u, y), x)
        s5(u) == setRight(u, x, y)
        s6(u) == setParent(u, y, x)
        s7(u) == setSize(u, x, u.node[y].size)
        s8(u) == setSize(u, y, getSize(u, left(u, y)) + getSize(u, right(u, y)) + 1)
    IN  atRotate(t, s8(s7(s6(s5(s4(s3(s2(s1(t)))))))), y, x)

(* insertFixup without root->color = BLACK after the loop *)
RECURSIVE insertFixupRootKept(_, _)
insertFixupRootKept(t, z) ==
    IF color(t, parent(t, z)) # RED THEN t
    ELSE IF parent(t, z) = left(t, parent(t, parent(t, z))) THEN
        LET y == right(t, parent(t, parent(t, z))) IN
        IF color(t, y) = RED THEN
            LET c1(u) == setColor(u, parent(u, z), BLACK)
                c2(u) == setColor(u, y, BLACK)
                c3(u) == setColor(u, parent(u, parent(u, z)), RED)
            IN  insertFixupRootKept(atLoopTest(c3(c2(c1(t))), "insertFixup", parent(t, parent(t, z))),
                        parent(t, parent(t, z)))
        ELSE
            LET inner == z = right(t, parent(t, z))
                z1 == IF inner THEN parent(t, z) ELSE z
                r1(u) == IF inner THEN leftRotate(u, z1) ELSE u
                c1(u) == setColor(u, parent(u, z1), BLACK)
                c2(u) == setColor(u, parent(u, parent(u, z1)), RED)
                r2(u) == rightRotate(u, parent(u, parent(u, z1)))
            IN  insertFixupRootKept(atLoopTest(r2(c2(c1(r1(t)))), "insertFixup", z1), z1)
    ELSE
        LET y == left(t, parent(t, parent(t, z))) IN
        IF color(t, y) = RED THEN
            LET c1(u) == setColor(u, parent(u, z), BLACK)
                c2(u) == setColor(u, y, BLACK)
                c3(u) == setColor(u, parent(u, parent(u, z)), RED)
            IN  insertFixupRootKept(atLoopTest(c3(c2(c1(t))), "insertFixup", parent(t, parent(t, z))),
                        parent(t, parent(t, z)))
        ELSE
            LET inner == z = left(t, parent(t, z))
                z1 == IF inner THEN parent(t, z) ELSE z
                r1(u) == IF inner THEN rightRotate(u, z1) ELSE u
                c1(u) == setColor(u, parent(u, z1), BLACK)
                c2(u) == setColor(u, parent(u, parent(u, z1)), RED)
                r2(u) == leftRotate(u, parent(u, parent(u, z1)))
            IN  insertFixupRootKept(atLoopTest(r2(c2(c1(r1(t)))), "insertFixup", z1), z1)

RECURSIVE insertFixup(_, _)
insertFixup(t, z) ==
    IF color(t, parent(t, z)) # RED THEN setColor(t, t.root, BLACK)
    ELSE IF parent(t, z) = left(t, parent(t, parent(t, z))) THEN
        LET y == right(t, parent(t, parent(t, z))) IN
        IF color(t, y) = RED THEN
            LET c1(u) == setColor(u, parent(u, z), BLACK)
                c2(u) == setColor(u, y, BLACK)
                c3(u) == setColor(u, parent(u, parent(u, z)), RED)
            IN  insertFixup(atLoopTest(c3(c2(c1(t))), "insertFixup", parent(t, parent(t, z))),
                        parent(t, parent(t, z)))
        ELSE
            LET inner == z = right(t, parent(t, z))
                z1 == IF inner THEN parent(t, z) ELSE z
                r1(u) == IF inner THEN leftRotate(u, z1) ELSE u
                c1(u) == setColor(u, parent(u, z1), BLACK)
                c2(u) == setColor(u, parent(u, parent(u, z1)), RED)
                r2(u) == rightRotate(u, parent(u, parent(u, z1)))
            IN  insertFixup(atLoopTest(r2(c2(c1(r1(t)))), "insertFixup", z1), z1)
    ELSE
        LET y == left(t, parent(t, parent(t, z))) IN
        IF color(t, y) = RED THEN
            LET c1(u) == setColor(u, parent(u, z), BLACK)
                c2(u) == setColor(u, y, BLACK)
                c3(u) == setColor(u, parent(u, parent(u, z)), RED)
            IN  insertFixup(atLoopTest(c3(c2(c1(t))), "insertFixup", parent(t, parent(t, z))),
                        parent(t, parent(t, z)))
        ELSE
            LET inner == z = left(t, parent(t, z))
                z1 == IF inner THEN parent(t, z) ELSE z
                r1(u) == IF inner THEN rightRotate(u, z1) ELSE u
                c1(u) == setColor(u, parent(u, z1), BLACK)
                c2(u) == setColor(u, parent(u, parent(u, z1)), RED)
                r2(u) == leftRotate(u, parent(u, parent(u, z1)))
            IN  insertFixup(atLoopTest(r2(c2(c1(r1(t)))), "insertFixup", z1), z1)

(* transplant without v->parent = u->parent *)
transplantNoParent(t, u, v) ==
    IF parent(t, u) = nil THEN setRoot(t, v)
    ELSE IF u = left(t, parent(t, u)) THEN setLeft(t, parent(t, u), v)
    ELSE setRight(t, parent(t, u), v)

transplant(t, u, v) ==
    LET s1(a) == IF parent(a, u) = nil THEN setRoot(a, v)
                 ELSE IF u = left(a, parent(a, u)) THEN setLeft(a, parent(a, u), v)
                 ELSE setRight(a, parent(a, u), v)
        s2(a) == setParent(a, v, parent(a, u))
    IN  s2(s1(t))

RECURSIVE minimum(_, _)
minimum(t, x) == IF left(t, x) # nil THEN minimum(t, left(t, x)) ELSE x

(* In every step w is x->parent->right (left in the mirrored half) of the *)
(* tree reached so far: the code re-reads it after each rotation.         *)
RECURSIVE deleteFixup(_, _)
deleteFixup(t, x) ==
    IF ~(x # t.root /\ color(t, x) = BLACK) THEN setColor(t, x, BLACK)
    ELSE IF x = left(t, parent(t, x)) THEN
        LET w(u) == right(u, parent(u, x))
            case1(u) == IF color(u, w(u)) = RED
                        THEN leftRotate(setColor(setColor(u, w(u), BLACK),
                                                  parent(u, x), RED), parent(u, x))
                        ELSE u
            case3(u) == IF color(u, right(u, w(u))) = BLACK
                        THEN rightRotate(setColor(setColor(u, left(u, w(u)), BLACK),
                                                   w(u), RED), w(u))
                        ELSE u
            c1(u) == setColor(u, w(u), color(u, parent(u, x)))
            c2(u) == setColor(u, parent(u, x), BLACK)
            c3(u) == setColor(u, right(u, w(u)), BLACK)
            case4(u) == leftRotate(c3(c2(c1(u))), parent(u, x))
            toRoot(u) == deleteFixup(atLoopTest(u, "deleteFixup", u.root), u.root)
            rest(u) == IF color(u, left(u, w(u))) = BLACK /\ color(u, right(u, w(u))) = BLACK
                       THEN deleteFixup(atLoopTest(setColor(u, w(u), RED), "deleteFixup", parent(u, x)),
                            parent(u, x))
                       ELSE toRoot(case4(case3(u)))
        IN  rest(case1(t))
    ELSE
        LET w(u) == left(u, parent(u, x))
            case1(u) == IF color(u, w(u)) = RED
                        THEN rightRotate(setColor(setColor(u, w(u), BLACK),
                                                   parent(u, x), RED), parent(u, x))
                        ELSE u
            case3(u) == IF color(u, left(u, w(u))) = BLACK
                        THEN leftRotate(setColor(setColor(u, right(u, w(u)), BLACK),
                                                  w(u), RED), w(u))
                        ELSE u
            c1(u) == setColor(u, w(u), color(u, parent(u, x)))
            c2(u) == setColor(u, parent(u, x), BLACK)
            c3(u) == setColor(u, left(u, w(u)), BLACK)
            case4(u) == rightRotate(c3(c2(c1(u))), parent(u, x))
            toRoot(u) == deleteFixup(atLoopTest(u, "deleteFixup", u.root), u.root)
            rest(u) == IF color(u, right(u, w(u))) = BLACK /\ color(u, left(u, w(u))) = BLACK
                       THEN deleteFixup(atLoopTest(setColor(u, w(u), RED), "deleteFixup", parent(u, x)),
                            parent(u, x))
                       ELSE toRoot(case4(case3(u)))
        IN  rest(case1(t))

(* The search loop of insert with the two directions exchanged *)
RECURSIVE insertDescendMirrored(_, _, _, _)
insertDescendMirrored(t, k, y, x) ==
    IF x = nil THEN [t |-> t, y |-> y]
    ELSE insertDescendMirrored(setSize(t, x, t.node[x].size + 1), k, x,
                               IF k < t.node[x].key THEN right(t, x) ELSE left(t, x))

(* The search loop of insert: size++ on every node of the path; yields the *)
(* tree and the last node y of the path                                   *)
RECURSIVE insertDescend(_, _, _, _)
insertDescend(t, k, y, x) ==
    IF x = nil THEN [t |-> t, y |-> y]
    ELSE insertDescend(setSize(t, x, t.node[x].size + 1), k, x,
                       IF k < t.node[x].key THEN left(t, x) ELSE right(t, x))

insert(t, k) ==
    LET z == newNode(t)
        alloc(u) == [u EXCEPT !.node = z :> OSTNode(k) @@ @]
        link(d) == IF d.y = nil THEN setRoot(setParent(d.t, z, d.y), z)
                   ELSE IF k < d.t.node[d.y].key
                        THEN setLeft(setParent(d.t, z, d.y), d.y, z)
                        ELSE setRight(setParent(d.t, z, d.y), d.y, z)
        linked(u) == setColor(link(insertDescend(alloc(u), k, nil, u.root)), z, RED)
    IN  insertFixup(atLoopTest(linked(t), "insertFixup", z), z)

(* search with the comparison turned round *)
RECURSIVE searchMirrored(_, _, _)
searchMirrored(t, x, k) ==
    IF x # nil /\ k # t.node[x].key
    THEN searchMirrored(t, IF k > t.node[x].key THEN left(t, x) ELSE right(t, x), k)
    ELSE x

RECURSIVE search(_, _, _)
search(t, x, k) ==
    IF x # nil /\ k # t.node[x].key
    THEN search(t, IF k < t.node[x].key THEN left(t, x) ELSE right(t, x), k)
    ELSE x

(* decrementPath with the loop left one node early: the last node below *)
(* stop keeps its size                                                  *)
RECURSIVE decrementPathShort(_, _, _)
decrementPathShort(t, p, stop) ==
    IF p = stop \/ parent(t, p) = stop THEN t
    ELSE decrementPathShort(setSize(t, p, t.node[p].size - 1), parent(t, p), stop)

(* decrementPath that decrements the node stop as well *)
RECURSIVE decrementPathPastStop(_, _, _)
decrementPathPastStop(t, p, stop) ==
    IF p = stop THEN setSize(t, p, t.node[p].size - 1)
    ELSE decrementPathPastStop(setSize(t, p, t.node[p].size - 1), parent(t, p), stop)

(* p->size-- from p upwards until the node stop is reached *)
RECURSIVE decrementPath(_, _, _)
decrementPath(t, p, stop) ==
    IF p = stop THEN t
    ELSE decrementPath(setSize(t, p, t.node[p].size - 1), parent(t, p), stop)

(* The two-children branch of remove with the decrement of the path *)
(* from y's parent up to z left out                                 *)
removeSuccessorNoDecrement(t, z) ==
    LET y == minimum(t, right(t, z))
        s1(u) == IF parent(u, y) = z THEN setParent(u, right(u, y), y)
                 ELSE LET a2(a) == transplant(a, y, right(a, y))
                          a3(a) == setRight(a, y, right(a, z))
                          a4(a) == setParent(a, right(a, y), y)
                      IN  a4(a3(a2(u)))
        s2(u) == transplant(u, z, y)
        s3(u) == setLeft(u, y, left(u, z))
        s4(u) == setParent(u, left(u, y), y)
        s5(u) == setColor(u, y, color(u, z))
        s6(u) == setSize(u, y, getSize(u, left(u, y)) + getSize(u, right(u, y)) + 1)
    IN  s6(s5(s4(s3(s2(s1(t))))))

(* The two-children branch of remove: y, the minimum of z's right subtree, *)
(* takes the place of z                                                   *)
removeSuccessor(t, z) ==
    LET y == minimum(t, right(t, z))
        s1(u) == IF parent(u, y) = z THEN setParent(u, right(u, y), y)
                 ELSE LET a1(a) == decrementPath(a, parent(a, y), z)
                          a2(a) == transplant(a, y, right(a, y))
                          a3(a) == setRight(a, y, right(a, z))
                          a4(a) == setParent(a, right(a, y), y)
                      IN  a4(a3(a2(a1(u))))
        s2(u) == transplant(u, z, y)
        s3(u) == setLeft(u, y, left(u, z))
        s4(u) == setParent(u, left(u, y), y)
        s5(u) == setColor(u, y, color(u, z))
        s6(u) == setSize(u, y, getSize(u, left(u, y)) + getSize(u, right(u, y)) + 1)
    IN  s6(s5(s4(s3(s2(s1(t))))))

(* remove with yOriginalColor left at z's color when y becomes the successor *)
removeStaleColor(t, k) ==
    LET z == search(t, t.root, k)
        two == left(t, z) # nil /\ right(t, z) # nil
        y == IF two THEN minimum(t, right(t, z)) ELSE z
        x == IF left(t, z) = nil THEN right(t, z)
             ELSE IF right(t, z) = nil THEN left(t, z)
             ELSE right(t, y)
        yOriginalColor == color(t, z)
        splice(u) == IF left(u, z) = nil THEN transplant(u, z, right(u, z))
                     ELSE IF right(u, z) = nil THEN transplant(u, z, left(u, z))
                     ELSE removeSuccessor(u, z)
        fix(u) == IF yOriginalColor = BLACK THEN deleteFixup(u, x) ELSE u
    IN  IF z = nil THEN t
        ELSE fix(deleteNode(splice(decrementPath(t, z, nil)), z))

remove(t, k) ==
    LET z == search(t, t.root, k)
        two == left(t, z) # nil /\ right(t, z) # nil
        y == IF two THEN minimum(t, right(t, z)) ELSE z
        x == IF left(t, z) = nil THEN right(t, z)
             ELSE IF right(t, z) = nil THEN left(t, z)
             ELSE right(t, y)
        yOriginalColor == color(t, y)
        splice(u) == IF left(u, z) = nil THEN transplant(u, z, right(u, z))
                     ELSE IF right(u, z) = nil THEN transplant(u, z, left(u, z))
                     ELSE removeSuccessor(u, z)
        free(u) == atDelete(deleteNode(u, z), z, x, yOriginalColor = BLACK)
        fix(u) == IF yOriginalColor = BLACK
                  THEN deleteFixup(atLoopTest(u, "deleteFixup", x), x) ELSE u
    IN  IF z = nil THEN t
        ELSE fix(free(splice(decrementPath(t, z, nil))))

(* selectNode that descends right with k less the left size only *)
RECURSIVE selectNodeOffByOne(_, _, _)
selectNodeOffByOne(t, x, k) ==
    IF x = nil THEN nil
    ELSE IF k = getSize(t, left(t, x)) + 1 THEN x
    ELSE IF k < getSize(t, left(t, x)) + 1 THEN selectNodeOffByOne(t, left(t, x), k)
    ELSE selectNodeOffByOne(t, right(t, x), k - getSize(t, left(t, x)))

RECURSIVE selectNode(_, _, _)
selectNode(t, x, k) ==
    IF x = nil THEN nil
    ELSE IF k = getSize(t, left(t, x)) + 1 THEN x
    ELSE IF k < getSize(t, left(t, x)) + 1 THEN selectNode(t, left(t, x), k)
    ELSE selectNode(t, right(t, x), k - (getSize(t, left(t, x)) + 1))

(* select without the check for the sentinel: it returns the sentinel's key *)
selectUnchecked(t, k) ==
    LET found(n) == [thrown |-> FALSE, value |-> t.node[n].key]
    IN  found(selectNode(t, t.root, k))

(* select: the key, or the std::out_of_range exception *)
select(t, k) ==
    LET found(n) == IF n = nil THEN [thrown |-> TRUE, value |-> 0]
                    ELSE [thrown |-> FALSE, value |-> t.node[n].key]
    IN  found(selectNode(t, t.root, k))

(* rankClimb that forgets the parent itself when it climbs from a right child *)
RECURSIVE rankClimbNoParent(_, _, _)
rankClimbNoParent(t, y, r) ==
    IF y = t.root THEN r
    ELSE rankClimbNoParent(t, parent(t, y),
                           IF y = right(t, parent(t, y))
                           THEN r + getSize(t, left(t, parent(t, y))) ELSE r)

RECURSIVE rankClimb(_, _, _)
rankClimb(t, y, r) ==
    IF y = t.root THEN r
    ELSE rankClimb(t, parent(t, y),
                   IF y = right(t, parent(t, y))
                   THEN r + getSize(t, left(t, parent(t, y))) + 1 ELSE r)

(* rank that starts the count at the left subtree's size, the node left out *)
rankFromZero(t, k) ==
    LET from(x) == IF x = nil THEN -1 ELSE rankClimb(t, x, getSize(t, left(t, x)))
    IN  from(search(t, t.root, k))

rank(t, k) ==
    LET from(x) == IF x = nil THEN -1 ELSE rankClimb(t, x, getSize(t, left(t, x)) + 1)
    IN  from(search(t, t.root, k))

size(t) == getSize(t, t.root)

(* empty that looks at the root's left child *)
emptyLeftOfRoot(t) == left(t, t.root) = nil

empty(t) == t.root = nil

---------------------------------------------------------------------------
(* pom.h *)

(* The marker of "no prefix": TLC's integers are 32 bits wide, so the     *)
(* marker is the least value the model can hold; as in the code, no sum   *)
(* of the model comes near it and it never enters an addition.            *)
LLONG_MIN == -2147483647

AugmentedData == [sum |-> 0, maxpref |-> LLONG_MIN, argmax |-> -1]

POMNode(iv) == [interval |-> iv, color |-> RED,
                data |-> [sum |-> iv.value, maxpref |-> iv.value, argmax |-> iv.start],
                left |-> nil, right |-> nil, parent |-> nil]

(* The constructor: Interval() is (0, 0, 0) and the sentinel's summary is *)
(* the empty one                                                          *)
POMTree ==
    [root |-> nil,
     node |-> (nil :> [interval |-> [start |-> 0, end |-> 0, value |-> 0],
                       color |-> BLACK, data |-> AugmentedData,
                       left |-> nil, right |-> nil, parent |-> nil]),
     log |-> <<>>]

(* Interval::operator< *)
(* operator< comparing the ends *)
lessByEnd(a, b) == a.end < b.end

less(a, b) == a.start < b.start

(* updateAugmentedData whose case 2 takes the node on a tie with the left *)
(* subtree (>= for >)                                                    *)
updateAugmentedDataTie(t, node) ==
    LET l == left(t, node)
        r == right(t, node)
        v == t.node[node].interval.value
        sum == v + (IF l # nil THEN t.node[l].data.sum ELSE 0)
                 + (IF r # nil THEN t.node[r].data.sum ELSE 0)
        leftSum == IF l # nil THEN t.node[l].data.sum ELSE 0
        leftMaxPref == IF l # nil THEN t.node[l].data.maxpref ELSE LLONG_MIN
        rightMaxPref == IF r # nil THEN t.node[r].data.maxpref ELSE LLONG_MIN
        prefixAtNode == leftSum + v
        atNode == prefixAtNode >= leftMaxPref
        m2 == IF atNode THEN prefixAtNode ELSE leftMaxPref
        a2 == IF atNode THEN t.node[node].interval.start
              ELSE IF l # nil THEN t.node[l].data.argmax ELSE -1
        intoRight(m) == r # nil /\ prefixAtNode + rightMaxPref > m
        m3(m) == IF intoRight(m) THEN prefixAtNode + rightMaxPref ELSE m
        a3(m, a) == IF intoRight(m) THEN t.node[r].data.argmax ELSE a
    IN  IF node = nil THEN t
        ELSE [t EXCEPT !.node[node].data =
                  [sum |-> sum, maxpref |-> m3(m2), argmax |-> a3(m2, a2)]]

updateAugmentedData(t, node) ==
    LET l == left(t, node)
        r == right(t, node)
        v == t.node[node].interval.value
        sum == v + (IF l # nil THEN t.node[l].data.sum ELSE 0)
                 + (IF r # nil THEN t.node[r].data.sum ELSE 0)
        leftSum == IF l # nil THEN t.node[l].data.sum ELSE 0
        leftMaxPref == IF l # nil THEN t.node[l].data.maxpref ELSE LLONG_MIN
        rightMaxPref == IF r # nil THEN t.node[r].data.maxpref ELSE LLONG_MIN
        prefixAtNode == leftSum + v
        (* case 1, then case 2 *)
        atNode == prefixAtNode > leftMaxPref
        m2 == IF atNode THEN prefixAtNode ELSE leftMaxPref
        a2 == IF atNode THEN t.node[node].interval.start
              ELSE IF l # nil THEN t.node[l].data.argmax ELSE -1
        (* case 3 *)
        intoRight(m) == r # nil /\ prefixAtNode + rightMaxPref > m
        m3(m) == IF intoRight(m) THEN prefixAtNode + rightMaxPref ELSE m
        a3(m, a) == IF intoRight(m) THEN t.node[r].data.argmax ELSE a
    IN  IF node = nil THEN t
        ELSE [t EXCEPT !.node[node].data =
                  [sum |-> sum, maxpref |-> m3(m2), argmax |-> a3(m2, a2)]]

(* leftRotate that leaves the augmented data of x and y as they were *)
POMleftRotateStale(t, x) ==
    LET y == right(t, x)
        s1(u) == setRight(u, x, left(u, y))
        s2(u) == IF left(u, y) # nil THEN setParent(u, left(u, y), x) ELSE u
        s3(u) == setParent(u, y, parent(u, x))
        s4(u) == IF parent(u, x) = nil THEN setRoot(u, y)
                 ELSE IF x = left(u, parent(u, x)) THEN setLeft(u, parent(u, x), y)
                 ELSE setRight(u, parent(u, x), y)
        s5(u) == setLeft(u, y, x)
        s6(u) == setParent(u, x, y)
    IN  s6(s5(s4(s3(s2(s1(t))))))

POMleftRotate(t, x) ==
    LET y == right(t, x)
        s1(u) == setRight(u, x, left(u, y))
        s2(u) == IF left(u, y) # nil THEN setParent(u, left(u, y), x) ELSE u
        s3(u) == setParent(u, y, parent(u, x))
        s4(u) == IF parent(u, x) = nil THEN setRoot(u, y)
                 ELSE IF x = left(u, parent(u, x)) THEN setLeft(u, parent(u, x), y)
                 ELSE setRight(u, parent(u, x), y)
        s5(u) == setLeft(u, y, x)
        s6(u) == setParent(u, x, y)
    IN  atRotate(t, updateAugmentedData(updateAugmentedData(s6(s5(s4(s3(s2(s1(t)))))), x), y), x, y)

(* rightRotate that recomputes the node that moved up first *)
POMrightRotateUpFirst(t, y) ==
    LET x == left(t, y)
        s1(u) == setLeft(u, y, right(u, x))
        s2(u) == IF right(u, x) # nil THEN setParent(u, right(u, x), y) ELSE u
        s3(u) == setParent(u, x, parent(u, y))
        s4(u) == IF parent(u, y) = nil THEN setRoot(u, x)
                 ELSE IF y = right(u, parent(u, y)) THEN setRight(u, parent(u, y), x)
                 ELSE setLeft(u, parent(u, y), x)
        s5(u) == setRight(u, x, y)
        s6(u) == setParent(u, y, x)
    IN  atRotate(t, updateAugmentedData(updateAugmentedData(s6(s5(s4(s3(s2(s1(t)))))), x), y), y, x)

POMrightRotate(t, y) ==
    LET x == left(t, y)
        s1(u) == setLeft(u, y, right(u, x))
        s2(u) == IF right(u, x) # nil THEN setParent(u, right(u, x), y) ELSE u
        s3(u) == setParent(u, x, parent(u, y))
        s4(u) == IF parent(u, y) = nil THEN setRoot(u, x)
                 ELSE IF y = right(u, parent(u, y)) THEN setRight(u, parent(u, y), x)
                 ELSE setLeft(u, parent(u, y), x)
        s5(u) == setRight(u, x, y)
        s6(u) == setParent(u, y, x)
    IN  atRotate(t, updateAugmentedData(updateAugmentedData(s6(s5(s4(s3(s2(s1(t)))))), y), x), y, x)

RECURSIVE POMinsertFixup(_, _)
POMinsertFixup(t, z) ==
    IF color(t, parent(t, z)) # RED THEN setColor(t, t.root, BLACK)
    ELSE IF parent(t, z) = left(t, parent(t, parent(t, z))) THEN
        LET y == right(t, parent(t, parent(t, z))) IN
        IF color(t, y) = RED THEN
            LET c1(u) == setColor(u, parent(u, z), BLACK)
                c2(u) == setColor(u, y, BLACK)
                c3(u) == setColor(u, parent(u, parent(u, z)), RED)
            IN  POMinsertFixup(atLoopTest(c3(c2(c1(t))), "insertFixup", parent(t, parent(t, z))),
                        parent(t, parent(t, z)))
        ELSE
            LET inner == z = right(t, parent(t, z))
                z1 == IF inner THEN parent(t, z) ELSE z
                r1(u) == IF inner THEN POMleftRotate(u, z1) ELSE u
                c1(u) == setColor(u, parent(u, z1), BLACK)
                c2(u) == setColor(u, parent(u, parent(u, z1)), RED)
                r2(u) == POMrightRotate(u, parent(u, parent(u, z1)))
            IN  POMinsertFixup(atLoopTest(r2(c2(c1(r1(t)))), "insertFixup", z1), z1)
    ELSE
        LET y == left(t, parent(t, parent(t, z))) IN
        IF color(t, y) = RED THEN
            LET c1(u) == setColor(u, parent(u, z), BLACK)
                c2(u) == setColor(u, y, BLACK)
                c3(u) == setColor(u, parent(u, parent(u, z)), RED)
            IN  POMinsertFixup(atLoopTest(c3(c2(c1(t))), "insertFixup", parent(t, parent(t, z))),
                        parent(t, parent(t, z)))
        ELSE
            LET inner == z = left(t, parent(t, z))
                z1 == IF inner THEN parent(t, z) ELSE z
                r1(u) == IF inner THEN POMrightRotate(u, z1) ELSE u
                c1(u) == setColor(u, parent(u, z1), BLACK)
                c2(u) == setColor(u, parent(u, parent(u, z1)), RED)
                r2(u) == POMleftRotate(u, parent(u, parent(u, z1)))
            IN  POMinsertFixup(atLoopTest(r2(c2(c1(r1(t)))), "insertFixup", z1), z1)

(* transplant without v->parent = u->parent *)
POMtransplantNoParent(t, u, v) ==
    IF parent(t, u) = nil THEN setRoot(t, v)
    ELSE IF u = left(t, parent(t, u)) THEN setLeft(t, parent(t, u), v)
    ELSE setRight(t, parent(t, u), v)

POMtransplant(t, u, v) ==
    LET s1(a) == IF parent(a, u) = nil THEN setRoot(a, v)
                 ELSE IF u = left(a, parent(a, u)) THEN setLeft(a, parent(a, u), v)
                 ELSE setRight(a, parent(a, u), v)
        s2(a) == setParent(a, v, parent(a, u))
    IN  s2(s1(t))

RECURSIVE POMminimum(_, _)
POMminimum(t, x) == IF left(t, x) # nil THEN POMminimum(t, left(t, x)) ELSE x

(* In every step w is x->parent->right (left in the mirrored half) of the *)
(* tree reached so far: the code re-reads it after each rotation.         *)
RECURSIVE POMdeleteFixup(_, _)
POMdeleteFixup(t, x) ==
    IF ~(x # t.root /\ color(t, x) = BLACK) THEN setColor(t, x, BLACK)
    ELSE IF x = left(t, parent(t, x)) THEN
        LET w(u) == right(u, parent(u, x))
            case1(u) == IF color(u, w(u)) = RED
                        THEN POMleftRotate(setColor(setColor(u, w(u), BLACK),
                                                  parent(u, x), RED), parent(u, x))
                        ELSE u
            case3(u) == IF color(u, right(u, w(u))) = BLACK
                        THEN POMrightRotate(setColor(setColor(u, left(u, w(u)), BLACK),
                                                   w(u), RED), w(u))
                        ELSE u
            c1(u) == setColor(u, w(u), color(u, parent(u, x)))
            c2(u) == setColor(u, parent(u, x), BLACK)
            c3(u) == setColor(u, right(u, w(u)), BLACK)
            case4(u) == POMleftRotate(c3(c2(c1(u))), parent(u, x))
            toRoot(u) == POMdeleteFixup(atLoopTest(u, "deleteFixup", u.root), u.root)
            rest(u) == IF color(u, left(u, w(u))) = BLACK /\ color(u, right(u, w(u))) = BLACK
                       THEN POMdeleteFixup(atLoopTest(setColor(u, w(u), RED), "deleteFixup", parent(u, x)),
                            parent(u, x))
                       ELSE toRoot(case4(case3(u)))
        IN  rest(case1(t))
    ELSE
        LET w(u) == left(u, parent(u, x))
            case1(u) == IF color(u, w(u)) = RED
                        THEN POMrightRotate(setColor(setColor(u, w(u), BLACK),
                                                   parent(u, x), RED), parent(u, x))
                        ELSE u
            case3(u) == IF color(u, left(u, w(u))) = BLACK
                        THEN POMleftRotate(setColor(setColor(u, right(u, w(u)), BLACK),
                                                  w(u), RED), w(u))
                        ELSE u
            c1(u) == setColor(u, w(u), color(u, parent(u, x)))
            c2(u) == setColor(u, parent(u, x), BLACK)
            c3(u) == setColor(u, left(u, w(u)), BLACK)
            case4(u) == POMrightRotate(c3(c2(c1(u))), parent(u, x))
            toRoot(u) == POMdeleteFixup(atLoopTest(u, "deleteFixup", u.root), u.root)
            rest(u) == IF color(u, right(u, w(u))) = BLACK /\ color(u, left(u, w(u))) = BLACK
                       THEN POMdeleteFixup(atLoopTest(setColor(u, w(u), RED), "deleteFixup", parent(u, x)),
                            parent(u, x))
                       ELSE toRoot(case4(case3(u)))
        IN  rest(case1(t))

(* search that takes the first node with the start asked for, whatever its end *)
RECURSIVE POMsearchByStart(_, _, _)
POMsearchByStart(t, x, iv) ==
    IF x # nil /\ ~(iv.start = t.node[x].interval.start)
    THEN POMsearchByStart(t, IF less(iv, t.node[x].interval) THEN left(t, x) ELSE right(t, x), iv)
    ELSE x

RECURSIVE POMsearch(_, _, _)
POMsearch(t, x, iv) ==
    IF x # nil /\ ~(iv.start = t.node[x].interval.start /\ iv.end = t.node[x].interval.end)
    THEN POMsearch(t, IF less(iv, t.node[x].interval) THEN left(t, x) ELSE right(t, x), iv)
    ELSE x

(* updateAncestors that recomputes the start node and stops *)
updateStartOnly(t, node) == updateAugmentedData(t, node)

RECURSIVE updateAncestors(_, _)
updateAncestors(t, node) ==
    IF node = nil THEN t
    ELSE updateAncestors(updateAugmentedData(t, node), parent(t, node))

(* The search loop of insert going left where the starts are equal *)
RECURSIVE POMinsertDescendLeftOnEqual(_, _, _, _)
POMinsertDescendLeftOnEqual(t, iv, y, x) ==
    IF x = nil THEN y
    ELSE POMinsertDescendLeftOnEqual(t, iv, x,
             IF ~less(t.node[x].interval, iv) THEN left(t, x) ELSE right(t, x))

(* The search loop of insert: the last node of the path *)
RECURSIVE POMinsertDescend(_, _, _, _)
POMinsertDescend(t, iv, y, x) ==
    IF x = nil THEN y
    ELSE POMinsertDescend(t, iv, x,
             IF less(iv, t.node[x].interval) THEN left(t, x) ELSE right(t, x))

POMinsert(t, iv) ==
    LET z == newNode(t)
        alloc(u) == [u EXCEPT !.node = z :> POMNode(iv) @@ @]
        y == POMinsertDescend(t, iv, nil, t.root)
        link(u) == IF y = nil THEN setRoot(setParent(u, z, y), z)
                   ELSE IF less(iv, u.node[y].interval)
                        THEN setLeft(setParent(u, z, y), y, z)
                        ELSE setRight(setParent(u, z, y), y, z)
        linked(u) == setColor(link(alloc(u)), z, RED)
        fixed(u) == POMinsertFixup(atLoopTest(linked(u), "insertFixup", z), z)
    IN  updateAncestors(atUpdateAncestors(fixed(t), z), z)

(* The two-children branch of remove: y, the minimum of z's right subtree, *)
(* takes the place of z                                                   *)
POMremoveSuccessor(t, z) ==
    LET y == POMminimum(t, right(t, z))
        s1(u) == IF parent(u, y) = z THEN setParent(u, right(u, y), y)
                 ELSE LET a2(a) == POMtransplant(a, y, right(a, y))
                          a3(a) == setRight(a, y, right(a, z))
                          a4(a) == setParent(a, right(a, y), y)
                      IN  a4(a3(a2(u)))
        s2(u) == POMtransplant(u, z, y)
        s3(u) == setLeft(u, y, left(u, z))
        s4(u) == setParent(u, left(u, y), y)
        s5(u) == setColor(u, y, color(u, z))
    IN  s5(s4(s3(s2(s1(t)))))

(* remove whose updateStart stays z's parent when z has two children *)
POMremoveFromParent(t, iv) ==
    LET z == POMsearch(t, t.root, iv)
        two == left(t, z) # nil /\ right(t, z) # nil
        y == IF two THEN POMminimum(t, right(t, z)) ELSE z
        x == IF left(t, z) = nil THEN right(t, z)
             ELSE IF right(t, z) = nil THEN left(t, z)
             ELSE right(t, y)
        yOriginalColor == color(t, y)
        updateStart == parent(t, z)
        splice(u) == IF left(u, z) = nil THEN POMtransplant(u, z, right(u, z))
                     ELSE IF right(u, z) = nil THEN POMtransplant(u, z, left(u, z))
                     ELSE POMremoveSuccessor(u, z)
        free(u) == atDelete(deleteNode(u, z), z, x, yOriginalColor = BLACK)
        fix(u) == IF yOriginalColor = BLACK
                  THEN POMdeleteFixup(atLoopTest(u, "deleteFixup", x), x) ELSE u
    IN  IF z = nil THEN t
        ELSE updateAncestors(atUpdateAncestors(fix(free(splice(t))), updateStart),
                             updateStart)

POMremove(t, iv) ==
    LET z == POMsearch(t, t.root, iv)
        two == left(t, z) # nil /\ right(t, z) # nil
        y == IF two THEN POMminimum(t, right(t, z)) ELSE z
        x == IF left(t, z) = nil THEN right(t, z)
             ELSE IF right(t, z) = nil THEN left(t, z)
             ELSE right(t, y)
        yOriginalColor == color(t, y)
        updateStart == IF ~two THEN parent(t, z)
                       ELSE IF parent(t, y) = z THEN y
                       ELSE parent(t, y)
        splice(u) == IF left(u, z) = nil THEN POMtransplant(u, z, right(u, z))
                     ELSE IF right(u, z) = nil THEN POMtransplant(u, z, left(u, z))
                     ELSE POMremoveSuccessor(u, z)
        free(u) == atDelete(deleteNode(u, z), z, x, yOriginalColor = BLACK)
        fix(u) == IF yOriginalColor = BLACK
                  THEN POMdeleteFixup(atLoopTest(u, "deleteFixup", x), x) ELSE u
    IN  IF z = nil THEN t
        ELSE updateAncestors(atUpdateAncestors(fix(free(splice(t))), updateStart),
                             updateStart)

findPOM(t) == IF t.root = nil THEN AugmentedData ELSE t.node[t.root].data

getSum(t) == IF t.root = nil THEN 0 ELSE t.node[t.root].data.sum

POMempty(t) == t.root = nil

---------------------------------------------------------------------------
(* The state: one tree object of either class, the bag of what its caller *)
(* has inserted and not removed, and the last call with its result.       *)
(* last.value is the key or rank a query returned; for remove it is the   *)
(* number of nodes the call deleted.                                      *)
(*                                                                        *)
(* A query leaves the tree as it is, so whatever can follow a query can   *)
(* also follow the call before it: a run is explored up to its first      *)
(* query.                                                                 *)
(*                                                                        *)
(* frame holds the locals of a function of josephus.h or main.cpp that    *)
(* drives the tree; it is NoFrame while the caller is free (Spec) and is  *)
(* used by the specification Main further down.                           *)
VARIABLES obj, ost, pom, keys, ivs, last, frame

vars == <<obj, ost, pom, keys, ivs, last, frame>>

call(op, arg, thrown, value) ==
    [op |-> op, arg |-> arg, thrown |-> thrown, value |-> value]

Queries == {"select", "rank", "findPOM", "getSum"}

(* The locals of a function that drives a tree; none when the caller of *)
(* the tree is free to make any call                                    *)
NoFrame == [pc |-> "none"]

Init ==
    /\ obj \in {"OrderStatisticTree", "POMTree"}
    /\ ost = OrderStatisticTree
    /\ pom = POMTree
    /\ keys = EmptyBag
    /\ ivs = EmptyBag
    /\ last = call("new", 0, FALSE, 0)
    /\ frame = NoFrame

OSTInsert(k) ==
    /\ obj = "OrderStatisticTree"
    /\ last.op \notin Queries
    /\ Cardinality(DOMAIN ost.node) - 1 < MaxNodes
    /\ ost' = Normalize(insert(ost, k))
    /\ keys' = keys (+) SetToBag({k})
    /\ last' = call("insert", 0, FALSE, 0)
    /\ UNCHANGED <<obj, pom, ivs, frame>>

OSTRemove(k) ==
    /\ obj = "OrderStatisticTree"
    /\ last.op \notin Queries
    /\ ost' = Normalize(remove(ost, k))
    /\ keys' = keys (-) SetToBag({k})
    /\ last' = call("remove", 0, FALSE, IF search(ost, ost.root, k) = nil THEN 0 ELSE 1)
    /\ UNCHANGED <<obj, pom, ivs, frame>>

OSTSelect(k) ==
    /\ obj = "OrderStatisticTree"
    /\ last.op \notin Queries
    /\ last' = call("select", k, select(ost, k).thrown, select(ost, k).value)
    /\ UNCHANGED <<obj, ost, pom, keys, ivs, frame>>

OSTRank(k) ==
    /\ obj = "OrderStatisticTree"
    /\ last.op \notin Queries
    /\ last' = call("rank", k, FALSE, rank(ost, k))
    /\ UNCHANGED <<obj, ost, pom, keys, ivs, frame>>

(* The intervals of the bag b with the (start, end) of iv *)
matching(b, iv) == {i \in BagToSet(b) : i.start = iv.start /\ i.end = iv.end}

POMInsert(iv) ==
    /\ obj = "POMTree"
    /\ last.op \notin Queries
    /\ Cardinality(DOMAIN pom.node) - 1 < MaxIntervals
    /\ pom' = Normalize(POMinsert(pom, iv))
    /\ ivs' = ivs (+) SetToBag({iv})
    /\ last' = call("insert", 0, FALSE, 0)
    /\ UNCHANGED <<obj, ost, keys, frame>>

(* The caller's interval leaves the bag: the one the tree dropped, or, if *)
(* the tree dropped none, one with the (start, end) asked for.            *)
POMRemove(iv) ==
    /\ obj = "POMTree"
    /\ last.op \notin Queries
    /\ pom' = Normalize(POMremove(pom, iv))
    /\ LET gone(z) == IF z # nil THEN ivs (-) SetToBag({pom.node[z].interval})
                      ELSE IF matching(ivs, iv) # {}
                           THEN ivs (-) SetToBag({CHOOSE i \in matching(ivs, iv) : TRUE})
                           ELSE ivs
       IN  ivs' = gone(POMsearch(pom, pom.root, iv))
    /\ last' = call("remove", 0, FALSE, IF POMsearch(pom, pom.root, iv) = nil THEN 0 ELSE 1)
    /\ UNCHANGED <<obj, ost, keys, frame>>

POMFind ==
    /\ obj = "POMTree"
    /\ last.op \notin Queries
    /\ last' = call("findPOM", 0, FALSE, findPOM(pom))
    /\ UNCHANGED <<obj, ost, pom, keys, ivs, frame>>

POMGetSum ==
    /\ obj = "POMTree"
    /\ last.op \notin Queries
    /\ last' = call("getSum", 0, FALSE, getSum(pom))
    /\ UNCHANGED <<obj, ost, pom, keys, ivs, frame>>

Next ==
    \/ \E k \in Keys : OSTInsert(k)
    \/ \E k \in Keys : OSTRemove(k)
    \/ \E k \in 0..(MaxNodes + 1) : OSTSelect(k)
    \/ \E k \in Keys : OSTRank(k)
    \/ \E iv \in Intervals : POMInsert(iv)
    \/ \E iv \in Intervals : POMRemove(iv)
    \/ POMFind
    \/ POMGetSum

Spec == Init /\ [][Next]_vars

---------------------------------------------------------------------------
(* josephus.h and the tests of main.cpp: functions that drive a tree of   *)
(* their own.  frame holds the locals of the function that runs:          *)
(*   JosephusPermutation::verify(n, m)  generateOST, then generateNaive,  *)
(*                                      then the comparison of the two    *)
(*   testPOMBasic                       four inserts, then findPOM        *)
(* One action is one turn of a loop of the code.                          *)

(* The greatest n and the greatest small m of verify(n, m); m is also    *)
(* taken at the greatest int.  generateNaive walks m steps for every     *)
(* elimination, so it is run for the small m only.                       *)
MaxN == 15
MaxM == 5

INT_MAX == 2147483647
INT_MIN == -INT_MAX - 1

(* a + b in int: signed overflow is undefined; overflows says when it *)
(* happens and add32 is the two's complement result                   *)
overflows(a, b) == (b > 0 /\ a > INT_MAX - b) \/ (b < 0 /\ a < INT_MIN - b)

add32(a, b) ==
    IF b > 0 /\ a > INT_MAX - b THEN INT_MIN + (a - (INT_MAX - b) - 1)
    ELSE IF b < 0 /\ a < INT_MIN - b THEN INT_MAX - ((INT_MIN - b) - a - 1)
    ELSE a + b

(* a % b of C++ for b > 0: the remainder has the sign of a *)
rem(a, b) == IF a >= 0 \/ a % b = 0 THEN a % b ELSE (a % b) - b

(* current + m - 1 with the next position taken one step too far *)
nextPositionNoStep(current, m, sz) ==
    [ub |-> overflows(current, m),
     value |-> rem(add32(current, m), sz)]

(* nextPosition advancing by m *)
nextPositionByM(current, m, sz) ==
    [ub |-> overflows(current, m),
     value |-> rem(add32(current, m), sz)]

(* (current + m - 1) % ost.size(): the value, and whether the sum left *)
(* the range of int on the way                                         *)
nextPosition(current, m, sz) ==
    [ub |-> overflows(current, m) \/ overflows(add32(current, m), -1),
     value |-> rem(add32(add32(current, m), -1), sz)]

(* The while (count < m) loop of generateNaive: the index it stops at *)
RECURSIVE skip(_, _, _, _, _)
skip(alive, n, m, current, count) ==
    IF ~(count < m) THEN current
    ELSE IF alive[current] /\ count + 1 = m THEN current
    ELSE skip(alive, n, m, (current + 1) % n, IF alive[current] THEN count + 1 ELSE count)

(* The while (!alive[current]) loop of generateNaive *)
RECURSIVE nextAlive(_, _, _)
nextAlive(alive, n, current) ==
    IF alive[current] THEN current ELSE nextAlive(alive, n, (current + 1) % n)

(* The locals of generateOST and of generateNaive when verify(n, m)    *)
(* starts; with n = 0 neither function enters a loop                  *)
JosephusFrame(n, m) ==
    [pc |-> IF n > 0 THEN "fill" ELSE IF m <= MaxM THEN "done" ELSE "returned",
     n |-> n, m |-> m, i |-> 0,
     current |-> 0, result |-> <<>>,
     alive |-> [p \in 0..(n - 1) |-> TRUE], ncurrent |-> 0, remaining |-> n, nresult |-> <<>>]

(* The intervals testPOMBasic inserts *)
intervals ==
    <<[start |-> 0, end |-> 5, value |-> 10], [start |-> 5, end |-> 10, value |-> -5],
      [start |-> 10, end |-> 15, value |-> 8], [start |-> 15, end |-> 20, value |-> -3]>>

MainInit ==
    /\ obj \in {"JosephusPermutation", "testPOMBasic"}
    /\ ost = OrderStatisticTree
    /\ pom = POMTree
    /\ keys = EmptyBag
    /\ ivs = EmptyBag
    /\ last = call("new", 0, FALSE, 0)
    /\ frame \in IF obj = "JosephusPermutation"
                 THEN {JosephusFrame(n, m) : n \in 0..MaxN, m \in (1..MaxM) \cup {INT_MAX}}
                 ELSE {[pc |-> "insert", i |-> 1]}

(* generateOST: for (int i = 0; i < n; i++) ost.insert(i) *)
Fill ==
    /\ obj = "JosephusPermutation" /\ frame.pc = "fill"
    /\ ost' = Normalize(insert(ost, frame.i))
    /\ keys' = keys (+) SetToBag({frame.i})
    /\ last' = call("insert", 0, FALSE, 0)
    /\ frame' = [frame EXCEPT !.i = @ + 1,
                              !.pc = IF frame.i + 1 < frame.n THEN "fill" ELSE "loop"]
    /\ UNCHANGED <<obj, pom, ivs>>

(* generateOST: one turn of while (!ost.empty()).  Where current + m - 1 *)
(* overflows the build decides: the sum wraps round, or the program      *)
(* traps.  An exception of select leaves generateOST and verify.         *)
Eliminate ==
    /\ obj = "JosephusPermutation" /\ frame.pc = "loop"
    /\ LET pos == nextPosition(frame.current, frame.m, size(ost))
           eliminated == select(ost, pos.value + 1)
           after == Normalize(remove(ost, eliminated.value))
       IN  \E outcome \in IF pos.ub THEN {"wraps", "traps"} ELSE {"defined"} :
               IF outcome = "traps"
               THEN /\ frame' = [frame EXCEPT !.pc = "trapped"]
                    /\ UNCHANGED <<ost, keys, last>>
               ELSE IF eliminated.thrown
               THEN /\ frame' = [frame EXCEPT !.pc = "thrown", !.current = pos.value]
                    /\ last' = call("select", pos.value + 1, TRUE, 0)
                    /\ UNCHANGED <<ost, keys>>
               ELSE /\ ost' = after
                    /\ keys' = keys (-) SetToBag({eliminated.value})
                    /\ last' = call("remove", 0, FALSE, 1)
                    /\ frame' = [frame EXCEPT
                                   !.result = Append(@, eliminated.value),
                                   !.current = IF ~empty(after) THEN pos.value % size(after)
                                               ELSE pos.value,
                                   !.pc = IF ~empty(after) THEN "loop"
                                          ELSE IF frame.m <= MaxM THEN "naive"
                                          ELSE "returned"]
    /\ UNCHANGED <<obj, pom, ivs>>

(* generateNaive: one turn of while (remaining > 0); after the last one *)
(* verify compares the two results                                      *)
NaiveEliminate ==
    /\ obj = "JosephusPermutation" /\ frame.pc = "naive"
    /\ LET at == skip(frame.alive, frame.n, frame.m, frame.ncurrent, 0)
           alive == [frame.alive EXCEPT ![at] = FALSE]
           remaining == frame.remaining - 1
           nresult == Append(frame.nresult, at)
       IN  /\ frame' = [frame EXCEPT
                          !.alive = alive,
                          !.nresult = nresult,
                          !.remaining = remaining,
                          !.ncurrent = IF remaining > 0
                                       THEN nextAlive(alive, frame.n, (at + 1) % frame.n)
                                       ELSE at,
                          !.pc = IF remaining > 0 THEN "naive" ELSE "done"]
           /\ last' = IF remaining > 0 THEN last
                      ELSE call("verify", 0, FALSE, frame.result = nresult)
    /\ UNCHANGED <<obj, ost, pom, keys, ivs>>

(* testPOMBasic: for (const auto& iv : intervals) pom.insert(iv) *)
TestInsert ==
    /\ obj = "testPOMBasic" /\ frame.pc = "insert"
    /\ pom' = Normalize(POMinsert(pom, intervals[frame.i]))
    /\ ivs' = ivs (+) SetToBag({intervals[frame.i]})
    /\ last' = call("insert", 0, FALSE, 0)
    /\ frame' = [frame EXCEPT !.i = @ + 1,
                              !.pc = IF frame.i < Len(intervals) THEN "insert" ELSE "find"]
    /\ UNCHANGED <<obj, ost, keys>>

(* testPOMBasic: AugmentedData result = pom.findPOM() *)
TestFind ==
    /\ obj = "testPOMBasic" /\ frame.pc = "find"
    /\ last' = call("findPOM", 0, FALSE, findPOM(pom))
    /\ frame' = [frame EXCEPT !.pc = "done"]
    /\ UNCHANGED <<obj, ost, pom, keys, ivs>>

MainNext ==
    \/ Fill
    \/ Eliminate
    \/ NaiveEliminate
    \/ TestInsert
    \/ TestFind

Main == MainInit /\ [][MainNext]_vars

(* The trees under any of their callers: a caller free to make any call *)
(* on one tree, verify(n, m), or testPOMBasic                            *)
AnyInit == Init \/ MainInit

AnyNext == Next \/ MainNext

AnyCaller == AnyInit /\ [][AnyNext]_vars

---------------------------------------------------------------------------
(* What the claims speak of *)

(* The nodes of a tree, the sentinel apart *)
Nodes(t) == (DOMAIN t.node) \ {nil}

(* The number of black nodes on every path from x down to the sentinel, *)
(* the sentinel not counted; -1 if two paths differ                     *)
RECURSIVE blackHeight(_, _)
blackHeight(t, x) ==
    IF x = nil THEN 0
    ELSE LET l == blackHeight(t, left(t, x))
             r == blackHeight(t, right(t, x))
         IN  IF l < 0 \/ r < 0 \/ l # r THEN -1
             ELSE l + (IF color(t, x) = BLACK THEN 1 ELSE 0)

RedBlack(t) ==
    /\ color(t, t.root) = BLACK
    /\ \A n \in Nodes(t) :
           color(t, n) = RED =>
               color(t, left(t, n)) = BLACK /\ color(t, right(t, n)) = BLACK
    /\ blackHeight(t, t.root) >= 0

(* C1: after any sequence of insert and remove calls on either tree the  *)
(* root is black, no red node has a red child and every path from the    *)
(* root to the sentinel crosses the same number of black nodes.          *)
C1_RedBlack == RedBlack(ost) /\ RedBlack(pom)

(* A POM tree of three black nodes left by a remove that deleted a node *)
C1_Witness ==
    /\ obj = "POMTree" /\ last.op = "remove" /\ last.value = 1
    /\ Cardinality(Nodes(pom)) = 3
    /\ blackHeight(pom, pom.root) = 2

(* C2: after every insert or remove on an order-statistic tree every     *)
(* node's size is 1 + size(left) + size(right), the sentinel's size is   *)
(* 0, and size() is the number of keys inserted and not removed.         *)
C2_Sizes ==
    /\ \A n \in Nodes(ost) :
           ost.node[n].size = 1 + getSize(ost, left(ost, n)) + getSize(ost, right(ost, n))
    /\ ost.node[nil].size = 0
    /\ size(ost) = BagCardinality(keys)

(* A remove that deleted one of two equal keys from a tree of six *)
C2_Witness ==
    /\ obj = "OrderStatisticTree" /\ last.op = "remove" /\ last.value = 1
    /\ size(ost) = 5
    /\ \E k \in Keys : CopiesIn(k, keys) >= 2

(* The summary the recomputation rule gives node n from its children: *)
(* the candidates A, B, C in this order, an absent child giving none   *)
Candidates(t, n) ==
    LET l == left(t, n)
        r == right(t, n)
        b == (IF l = nil THEN 0 ELSE t.node[l].data.sum) + t.node[n].interval.value
    IN  (IF l = nil THEN <<>>
         ELSE <<[maxpref |-> t.node[l].data.maxpref, argmax |-> t.node[l].data.argmax]>>)
        \o <<[maxpref |-> b, argmax |-> t.node[n].interval.start]>>
        \o (IF r = nil THEN <<>>
            ELSE <<[maxpref |-> b + t.node[r].data.maxpref,
                    argmax |-> t.node[r].data.argmax]>>)

Rule(t, n) ==
    LET c == Candidates(t, n)
        best == CHOOSE i \in 1..Len(c) :
                    /\ \A j \in 1..Len(c) : c[j].maxpref <= c[i].maxpref
                    /\ \A j \in 1..(i - 1) : c[j].maxpref < c[i].maxpref
    IN  [sum |-> (IF left(t, n) = nil THEN 0 ELSE t.node[left(t, n)].data.sum)
                 + t.node[n].interval.value
                 + (IF right(t, n) = nil THEN 0 ELSE t.node[right(t, n)].data.sum),
         maxpref |-> c[best].maxpref,
         argmax |-> c[best].argmax]

(* C3: after every insert or remove on a POM tree every node, not only   *)
(* the root, carries the summary the recomputation rule gives it from    *)
(* its current children.                                                 *)
C3_Augmented == \A n \in Nodes(pom) : pom.node[n].data = Rule(pom, n)

(* A remove that deleted a node and left a node with two children *)
C3_Witness ==
    /\ obj = "POMTree" /\ last.op = "remove" /\ last.value = 1
    /\ \E n \in Nodes(pom) :
           /\ left(pom, n) # nil /\ right(pom, n) # nil
           /\ pom.node[n].data.maxpref > pom.node[n].data.sum

(* The sum of the values of the intervals of a bag *)
RECURSIVE SumOver(_, _)
SumOver(S, b) ==
    IF S = {} THEN 0
    ELSE LET e == CHOOSE x \in S : TRUE
         IN  e.value * CopiesIn(e, b) + SumOver(S \ {e}, b)

BagSum(b) == SumOver(BagToSet(b), b)

(* C4: getSum() is the sum of the values of the intervals inserted and  *)
(* not removed (0 when there are none).                                 *)
C4_GetSum == obj = "POMTree" => getSum(pom) = BagSum(ivs)

(* The intervals of a POM tree in in-order position *)
Content(t) == [i \in 1..Len(inorder(t, t.root)) |-> t.node[inorder(t, t.root)[i]].interval]

RECURSIVE Prefix(_, _)
Prefix(c, i) == IF i = 0 THEN 0 ELSE Prefix(c, i - 1) + c[i].value

(* C5: on a non-empty POM tree findPOM().maxpref is the greatest sum of a *)
(* non-empty prefix of the in-order value sequence, and argmax the start  *)
(* of the leftmost interval where that sum is reached.                    *)
C5_FindPOM ==
    pom.root # nil =>
        LET c == Content(pom)
            at == CHOOSE i \in 1..Len(c) :
                      /\ \A j \in 1..Len(c) : Prefix(c, j) <= Prefix(c, i)
                      /\ \A j \in 1..(i - 1) : Prefix(c, j) < Prefix(c, i)
        IN  /\ findPOM(pom).maxpref = Prefix(c, at)
            /\ findPOM(pom).argmax = c[at].start

(* findPOM on a tree whose greatest prefix sum is reached twice, at two *)
(* different starts                                                     *)
C5_Witness ==
    /\ last.op = "findPOM"
    /\ \E i, j \in 1..Len(Content(pom)) :
           /\ i < j
           /\ Prefix(Content(pom), i) = last.value.maxpref
           /\ Prefix(Content(pom), j) = last.value.maxpref
           /\ Content(pom)[i].start # Content(pom)[j].start

(* The number of elements of the bag b that are at most v *)
CountUpTo(b, v) == BagCardinality([e \in {x \in BagToSet(b) : x <= v} |-> b[e]])

(* The k-th element of the non-decreasing sequence of the elements of b *)
Kth(b, k) == CHOOSE v \in BagToSet(b) : CountUpTo(b, v - 1) < k /\ k <= CountUpTo(b, v)

(* C6: for 1 <= k <= size(), select(k) returns the k-th element of the   *)
(* non-decreasing sequence of the keys stored, duplicates counted.       *)
C6_Select ==
    (last.op = "select" /\ 1 <= last.arg /\ last.arg <= size(ost)) =>
        ~last.thrown /\ last.value = Kth(keys, last.arg)

(* select(4) on a tree of six keys, two of them equal *)
C6_Witness ==
    /\ last.op = "select" /\ last.arg = 4 /\ ~last.thrown
    /\ size(ost) = 6
    /\ \E k \in Keys : CopiesIn(k, keys) = 2
    /\ \E k \in Keys : CopiesIn(k, keys) = 0

(* The keys stored in an order-statistic tree *)
Stored(t) == {t.node[n].key : n \in Nodes(t)}

(* C7 as stated: rank(select(k)) = k for all k in [1, size()], and      *)
(* select(rank(key)) = key for every key present, repeated keys allowed *)
C7_Original ==
    /\ \A k \in 1..size(ost) : rank(ost, select(ost, k).value) = k
    /\ \A key \in Stored(ost) : select(ost, rank(ost, key)) = [thrown |-> FALSE, value |-> key]

(* C7, amended: rank(select(k)) is a position that holds the key        *)
(* select(k), and it is k itself when that key is stored once; and      *)
(* select(rank(key)) = key for every key present.                       *)
C7_Amended ==
    /\ \A k \in 1..size(ost) :
           LET key == select(ost, k).value
           IN  /\ select(ost, rank(ost, key)) = select(ost, k)
               /\ CopiesIn(key, keys) = 1 => rank(ost, key) = k
    /\ \A key \in Stored(ost) : select(ost, rank(ost, key)) = [thrown |-> FALSE, value |-> key]

(* A tree of five keys after a remove, one key stored twice, whose rank *)
(* is the position of one of the two                                    *)
C7_Witness ==
    /\ obj = "OrderStatisticTree" /\ last.op = "remove" /\ last.value = 1
    /\ size(ost) = 5
    /\ \E k \in 1..4 :
           /\ select(ost, k).value = select(ost, k + 1).value
           /\ rank(ost, select(ost, k).value) = k + 1

(* C8: select(k) throws exactly when k is outside [1, size()], and then *)
(* (as in every call of select) the tree is left as it was.             *)
C8_SelectRange ==
    [][last'.op = "select" =>
           /\ last'.thrown <=> ~(1 <= last'.arg /\ last'.arg <= size(ost))
           /\ ost' = ost]_vars

(* select(size() + 1) threw on a tree of three keys *)
C8_Witness ==
    /\ last.op = "select" /\ last.thrown
    /\ size(ost) = 3 /\ last.arg = 4

(* C9: rank(key) is -1 exactly when key is not stored, lies in          *)
(* [1, size()] for a stored key, and leaves the tree as it was.         *)
C9_Rank ==
    [][last'.op = "rank" =>
           /\ last'.value = -1 <=> ~BagIn(last'.arg, keys)
           /\ BagIn(last'.arg, keys) => 1 <= last'.value /\ last'.value <= size(ost)
           /\ ost' = ost]_vars

(* rank of a key that was removed again, on a tree that still holds keys *)
C9_Witness ==
    /\ last.op = "rank" /\ last.value = -1
    /\ size(ost) = 4
    /\ \E k \in Keys : CopiesIn(k, keys) = 2

(* The stored nodes with the (start, end) of iv *)
Matches(t, iv) ==
    {n \in Nodes(t) : t.node[n].interval.start = iv.start /\ t.node[n].interval.end = iv.end}

(* C10: remove of a key that is not stored, or of an interval whose     *)
(* (start, end) no stored node has, leaves the whole tree as it was.    *)
C10_RemoveAbsent ==
    [][last'.op = "remove" =>
           /\ \A k \in Keys : (OSTRemove(k) /\ k \notin Stored(ost)) => ost' = ost
           /\ \A iv \in Intervals :
                  (POMRemove(iv) /\ Matches(pom, iv) = {}) => pom' = pom]_vars

(* A remove that deleted nothing, on a POM tree of three intervals of   *)
(* which none has the end 2                                             *)
C10_Witness ==
    /\ obj = "POMTree" /\ last.op = "remove" /\ last.value = 0
    /\ Cardinality(Nodes(pom)) = 3
    /\ \A n \in Nodes(pom) : pom.node[n].interval.end = 3


(* The sequence s without its i-th element *)
Without(s, i) == SubSeq(s, 1, i - 1) \o SubSeq(s, i + 1, Len(s))

(* C11: remove(interval) on a POM tree that stores a node with the       *)
(* (start, end) asked for removes exactly one such node, whatever value  *)
(* the argument carries and whatever other intervals share the start.    *)
C11_RemoveOne ==
    [][last'.op = "remove" =>
           \A iv \in Intervals :
               (POMRemove(iv) /\ Matches(pom, iv) # {}) =>
                   \E n \in Matches(pom, iv) : Content(pom') = Without(Content(pom), n)]_vars

(* The keys of an order-statistic tree in in-order position *)
OSTContent(t) == [i \in 1..Len(inorder(t, t.root)) |-> t.node[inorder(t, t.root)[i]].key]

(* C12: in any reachable state of either tree, insert followed at once  *)
(* by remove of the same key or interval gives back the in-order        *)
(* content, size(), getSum() and findPOM() of before the insert.        *)
C12_InsertRemove ==
    /\ \A k \in Keys :
           LET same(t) == OSTContent(t) = OSTContent(ost) /\ size(t) = size(ost)
           IN  same(remove(insert(ost, k), k))
    /\ \A iv \in Intervals :
           LET same(t) == /\ Content(t) = Content(pom)
                          /\ getSum(t) = getSum(pom)
                          /\ findPOM(t) = findPOM(pom)
           IN  same(POMremove(POMinsert(pom, iv), iv))

(* C13: the in-order traversal of an order-statistic tree is a           *)
(* non-decreasing key sequence, that of a POM tree a sequence of         *)
(* non-decreasing starts.                                                *)
C13_InOrder ==
    /\ \A i \in 1..(Len(OSTContent(ost)) - 1) : OSTContent(ost)[i] <= OSTContent(ost)[i + 1]
    /\ \A i \in 1..(Len(Content(pom)) - 1) : Content(pom)[i].start <= Content(pom)[i + 1].start

(* Either tree after a remove that deleted a node, with two keys (starts) *)
(* in six nodes, so that equal ones lie on both sides of a node           *)
C13_Witness ==
    /\ last.op = "remove" /\ last.value = 1
    /\ \/ Cardinality(Nodes(ost)) = 5 /\ Cardinality(Stored(ost)) = 2
       \/ Cardinality(Nodes(pom)) = 5 /\ Cardinality({pom.node[n].interval.start : n \in Nodes(pom)}) = 2

(* The nodes of the subtree of x *)
Subtree(t, x) == {inorder(t, x)[i] : i \in 1..Len(inorder(t, x))}

(* C14 as stated: every node's key compares less than all keys in its   *)
(* right subtree and not-less than all keys in its left subtree.        *)
C14_Original ==
    /\ \A n \in Nodes(ost) :
           /\ \A r \in Subtree(ost, right(ost, n)) : ost.node[n].key < ost.node[r].key
           /\ \A l \in Subtree(ost, left(ost, n)) : ~(ost.node[n].key < ost.node[l].key)
    /\ \A n \in Nodes(pom) :
           /\ \A r \in Subtree(pom, right(pom, n)) : less(pom.node[n].interval, pom.node[r].interval)
           /\ \A l \in Subtree(pom, left(pom, n)) : ~less(pom.node[n].interval, pom.node[l].interval)

(* C14: every node's key compares not-greater than all keys in its      *)
(* right subtree and not-less than all keys in its left subtree.        *)
C14_Amended ==
    /\ \A n \in Nodes(ost) :
           /\ \A r \in Subtree(ost, right(ost, n)) : ~(ost.node[r].key < ost.node[n].key)
           /\ \A l \in Subtree(ost, left(ost, n)) : ~(ost.node[n].key < ost.node[l].key)
    /\ \A n \in Nodes(pom) :
           /\ \A r \in Subtree(pom, right(pom, n)) : ~less(pom.node[r].interval, pom.node[n].interval)
           /\ \A l \in Subtree(pom, left(pom, n)) : ~less(pom.node[n].interval, pom.node[l].interval)

(* A node with its own key both in its left and in its right subtree *)
C14_Witness ==
    \E n \in Nodes(ost) :
        /\ \E l \in Subtree(ost, left(ost, n)) : ost.node[l].key = ost.node[n].key
        /\ \E r \in Subtree(ost, right(ost, n)) : ost.node[r].key = ost.node[n].key

(* C18: a new order-statistic tree has size() = 0 and empty() true, and *)
(* after any calls empty() is true exactly when size() = 0, exactly     *)
(* when every key inserted has been removed.                            *)
C18_Empty ==
    /\ last.op = "new" => size(ost) = 0 /\ empty(ost)
    /\ empty(ost) <=> size(ost) = 0
    /\ size(ost) = 0 <=> keys = EmptyBag

(* An order-statistic tree emptied by a remove *)
C18_Witness ==
    /\ obj = "OrderStatisticTree" /\ last.op = "remove" /\ last.value = 1
    /\ empty(ost)

(* C19: a POM tree that holds no interval, new or after every interval  *)
(* inserted has been removed, answers findPOM() with sum 0, maxpref     *)
(* LLONG_MIN and argmax -1, getSum() with 0 and empty() with true; one  *)
(* that holds an interval has a maxpref other than LLONG_MIN.           *)
C19_EmptyPOM ==
    obj = "POMTree" =>
        /\ (Nodes(pom) = {} \/ ivs = EmptyBag) =>
               /\ findPOM(pom) = [sum |-> 0, maxpref |-> LLONG_MIN, argmax |-> -1]
               /\ getSum(pom) = 0
               /\ POMempty(pom)
        /\ Nodes(pom) # {} => findPOM(pom).maxpref # LLONG_MIN

(* C20: with pairwise distinct keys stored, rank(key) of a stored key   *)
(* is 1 plus the number of stored keys less than key.                   *)
C20_RankPosition ==
    (\A k \in Keys : CopiesIn(k, keys) <= 1) =>
        /\ \A k \in Stored(ost) : rank(ost, k) = 1 + Cardinality({j \in Stored(ost) : j < k})
        /\ (last.op = "rank" /\ last.arg \in Stored(ost)) =>
               last.value = 1 + Cardinality({j \in Stored(ost) : j < last.arg})

(* rank of the greatest of four distinct keys, after a remove and a new *)
(* insert have reshaped the tree                                        *)
C20_Witness ==
    /\ last.op = "rank" /\ last.value = 4
    /\ Cardinality(Stored(ost)) = 4 /\ size(ost) = 4


(* C15: for every n >= 1 and m >= 1 generateOST(n, m) and              *)
(* generateNaive(n, m) return the same elimination sequence: generateOST *)
(* returns, and verify finds its result equal to generateNaive's.        *)
C15_Identical ==
    obj = "JosephusPermutation" =>
        /\ frame.pc \notin {"thrown", "trapped"}
        /\ frame.pc = "done" => frame.result = frame.nresult

(* C16 as stated: for n = 7 and m = 3 both functions return *)
(* [2,5,1,6,3,0,4].                                          *)
C16_Original ==
    (obj = "JosephusPermutation" /\ frame.pc = "done" /\ frame.n = 7 /\ frame.m = 3) =>
        /\ frame.result = <<2, 5, 1, 6, 3, 0, 4>>
        /\ frame.nresult = <<2, 5, 1, 6, 3, 0, 4>>

(* C16: for n = 7 and m = 3 both generateOST and generateNaive return *)
(* the elimination sequence [2,5,1,6,4,0,3].                          *)
C16_Amended ==
    (obj = "JosephusPermutation" /\ frame.pc = "done" /\ frame.n = 7 /\ frame.m = 3) =>
        /\ frame.result = <<2, 5, 1, 6, 4, 0, 3>>
        /\ frame.nresult = <<2, 5, 1, 6, 4, 0, 3>>

(* verify(7, 3) has run both functions to their end *)
C16_Witness ==
    /\ obj = "JosephusPermutation" /\ frame.pc = "done" /\ frame.n = 7 /\ frame.m = 3
    /\ Len(frame.result) = 7 /\ Len(frame.nresult) = 7

(* C17: after the inserts of [0,5) 10, [5,10) -5, [10,15) 8 and       *)
(* [15,20) -3, in that order, into an empty POM tree, getSum() is 10   *)
(* and findPOM() has maxpref 13 and argmax 10.                         *)
C17_TestPOMBasic ==
    (obj = "testPOMBasic" /\ frame.pc = "done") =>
        /\ getSum(pom) = 10
        /\ last.value.maxpref = 13
        /\ last.value.argmax = 10

(* testPOMBasic has inserted its four intervals and called findPOM *)
C17_Witness ==
    /\ obj = "testPOMBasic" /\ frame.pc = "done"
    /\ Len(Content(pom)) = 4 /\ last.op = "findPOM"

(* Parent links agree with child links in the tree t *)
Linked(t) ==
    /\ parent(t, t.root) = nil
    /\ \A n \in Nodes(t) :
           /\ left(t, n) # nil => parent(t, left(t, n)) = n
           /\ right(t, n) # nil => parent(t, right(t, n)) = n

(* Linked at every place of the history log *)
LinkedThroughout(log) == \A i \in DOMAIN log : Linked(log[i].tree)

(* C29: in both trees the root's parent is the sentinel and every      *)
(* non-sentinel child c of a node n has c.parent = n, after every      *)
(* insert and remove and, within them, after every rotation and at     *)
(* every test of a fix-up loop.                                        *)
C29_ParentLinks ==
    [][/\ Linked(ost') /\ Linked(pom')
       /\ last'.op = "insert" =>
              /\ \A k \in Keys :
                     (keys' = keys (+) SetToBag({k}) /\ OSTInsert(k)) =>
                         LinkedThroughout(insert(ost, k).log)
              /\ \A iv \in Intervals :
                     (ivs' = ivs (+) SetToBag({iv}) /\ POMInsert(iv)) =>
                         LinkedThroughout(POMinsert(pom, iv).log)
       /\ last'.op = "remove" =>
              /\ \A k \in Keys : OSTRemove(k) => LinkedThroughout(remove(ost, k).log)
              /\ \A iv \in Intervals :
                     POMRemove(iv) => LinkedThroughout(POMremove(pom, iv).log)]_vars

(* A remove that deleted one of six keys and left a root with two      *)
(* children and a grandchild under the right one                       *)
C29_Witness ==
    /\ obj = "OrderStatisticTree" /\ last.op = "remove" /\ last.value = 1
    /\ size(ost) = 5
    /\ left(ost, ost.root) # nil /\ right(ost, ost.root) # nil
    /\ left(ost, right(ost, ost.root)) # nil

(* The sequence s with e put in after its i-th element *)
InsertAfter(s, i, e) == SubSeq(s, 1, i) \o <<e>> \o SubSeq(s, i + 1, Len(s))

(* The last position of s that holds a start not greater than that of iv, *)
(* 0 if there is none                                                     *)
LastNotAfter(s, iv) ==
    IF \E i \in 1..Len(s) : s[i].start <= iv.start
    THEN CHOOSE i \in 1..Len(s) :
             /\ s[i].start <= iv.start
             /\ \A j \in (i + 1)..Len(s) : s[j].start > iv.start
    ELSE 0

(* after is before with iv put in behind every interval whose start is *)
(* not greater                                                         *)
PutBehind(before, after, iv) ==
    after = InsertAfter(before, LastNotAfter(before, iv), iv)

(* after is before, or before with one interval taken out *)
OneTakenOut(before, after) ==
    \/ after = before
    \/ \E i \in 1..Len(before) : after = Without(before, i)

(* C30: in a POM tree intervals of equal start stand in the in-order   *)
(* sequence in the order of their insertion: an insert puts the new    *)
(* interval after every stored interval whose start is not greater and *)
(* moves no other, and a remove takes one interval out and moves no    *)
(* other, whatever rotations the call makes.                           *)
C30_StableOrder ==
    [][/\ last'.op = "insert" =>
              \A iv \in Intervals :
                  (ivs' = ivs (+) SetToBag({iv}) /\ POMInsert(iv)) =>
                      PutBehind(Content(pom), Content(pom'), iv)
       /\ last'.op = "remove" =>
              \A iv \in Intervals :
                  POMRemove(iv) => OneTakenOut(Content(pom), Content(pom'))]_vars

(* Six intervals after an insert, with [1,2) both before and after a   *)
(* [1,3): among equal starts the order is neither by end nor by value  *)
C30_Witness ==
    /\ obj = "POMTree" /\ last.op = "insert" /\ Len(Content(pom)) = 6
    /\ \E i, j, k \in 1..6 :
           /\ i < j /\ j < k
           /\ Content(pom)[i].start = 1 /\ Content(pom)[i].end = 2
           /\ Content(pom)[j].start = 1 /\ Content(pom)[j].end = 3
           /\ Content(pom)[k].start = 1 /\ Content(pom)[k].end = 2

(* The sentinel of an order-statistic tree, and of a POM tree, as the *)
(* constructor left it                                                 *)
SentinelOST(t) == color(t, nil) = BLACK /\ t.node[nil].size = 0

SentinelPOM(t) == color(t, nil) = BLACK /\ t.node[nil].data = AugmentedData

(* The same at every place of the history log *)
SentinelOSTThroughout(log) == \A i \in DOMAIN log : SentinelOST(log[i].tree)

SentinelPOMThroughout(log) == \A i \in DOMAIN log : SentinelPOM(log[i].tree)

(* C26: the sentinel of each tree stays black with the empty summary   *)
(* (size 0; sum 0, maxpref LLONG_MIN, argmax -1): it is so after the   *)
(* constructor, after every insert and remove and, within them, after  *)
(* every rotation, at every test of a fix-up loop, after delete z and  *)
(* at the call of updateAncestors.                                     *)
C26_Sentinel ==
    [][/\ SentinelOST(ost) /\ SentinelPOM(pom)
       /\ SentinelOST(ost') /\ SentinelPOM(pom')
       /\ last'.op = "insert" =>
              /\ \A k \in Keys :
                     (keys' = keys (+) SetToBag({k}) /\ OSTInsert(k)) =>
                         SentinelOSTThroughout(insert(ost, k).log)
              /\ \A iv \in Intervals :
                     (ivs' = ivs (+) SetToBag({iv}) /\ POMInsert(iv)) =>
                         SentinelPOMThroughout(POMinsert(pom, iv).log)
       /\ last'.op = "remove" =>
              /\ \A k \in Keys :
                     OSTRemove(k) => SentinelOSTThroughout(remove(ost, k).log)
              /\ \A iv \in Intervals :
                     POMRemove(iv) => SentinelPOMThroughout(POMremove(pom, iv).log)]_vars

(* A remove from a POM tree of six that handed the sentinel to        *)
(* transplant as the node taking the place of the spliced one: its    *)
(* parent field was written                                            *)
C26_Witness ==
    /\ obj = "POMTree" /\ last.op = "remove" /\ last.value = 1
    /\ Len(Content(pom)) = 5
    /\ pom.node[nil].parent # nil

(* The entries of the history log that are returns of a rotation *)
Rotations(log) == {i \in DOMAIN log : log[i].at = "rotate"}

(* size = 1 + size(left) + size(right) at node n of the tree t *)
SizeRule(t, n) == t.node[n].size = 1 + getSize(t, left(t, n)) + getSize(t, right(t, n))

(* After each rotation of the history both rotated nodes obey SizeRule *)
RotatedSized(log) ==
    \A i \in Rotations(log) :
        SizeRule(log[i].tree, log[i].down) /\ SizeRule(log[i].tree, log[i].up)

(* C22: in an order-statistic tree, right after every leftRotate or   *)
(* rightRotate made within insert or remove, both rotated nodes have  *)
(* size = 1 + size(left) + size(right): the increments of insert and  *)
(* the decrements of remove are complete before any fix-up rotation.  *)
C22_RotationSizes ==
    [][/\ last'.op = "insert" =>
              \A k \in Keys :
                  (keys' = keys (+) SetToBag({k}) /\ OSTInsert(k)) =>
                      RotatedSized(insert(ost, k).log)
       /\ last'.op = "remove" =>
              \A k \in Keys : OSTRemove(k) => RotatedSized(remove(ost, k).log)]_vars

(* An order-statistic tree of six from which the remove of some key  *)
(* rotates twice; the caller is free to make that call               *)
C22_Witness ==
    /\ obj = "OrderStatisticTree" /\ last.op \notin Queries /\ size(ost) = 6
    /\ \E k \in Keys : Cardinality(Rotations(remove(ost, k).log)) >= 2

(* The rotation recorded at place i of the history left the in-order   *)
(* sequence of the nodes as it was                                     *)
SameOrder(log, i) ==
    inorder(log[i].tree, log[i].tree.root) = inorder(log[i].before, log[i].before.root)

(* The nodes, the sentinel included, other than the two rotated *)
Bystanders(log, i) == (DOMAIN log[i].tree.node) \ {log[i].down, log[i].up}

OSTRotationFrame(log) ==
    \A i \in Rotations(log) :
        /\ SameOrder(log, i)
        /\ \A n \in Bystanders(log, i) :
               log[i].tree.node[n].size = log[i].before.node[n].size

(* In a POM tree the node that moved down holds the summary the rule   *)
(* gives from its new children, and the node that moved up the summary *)
(* the rule gives from its new children, the renewed one included      *)
POMRotationFrame(log) ==
    \A i \in Rotations(log) :
        /\ SameOrder(log, i)
        /\ \A n \in Bystanders(log, i) :
               log[i].tree.node[n].data = log[i].before.node[n].data
        /\ log[i].tree.node[log[i].down].data = Rule(log[i].tree, log[i].down)
        /\ log[i].tree.node[log[i].up].data = Rule(log[i].tree, log[i].up)

(* C23: a single rotation in either tree keeps the in-order sequence   *)
(* of the nodes and changes the stored summary (size; sum, maxpref,    *)
(* argmax) of no node but the two rotated; in a POM tree the node that *)
(* moved down is recomputed before the node that moved up, so that     *)
(* both summaries follow the rule when the rotation returns.           *)
C23_RotationFrame ==
    [][/\ last'.op = "insert" =>
              /\ \A k \in Keys :
                     (keys' = keys (+) SetToBag({k}) /\ OSTInsert(k)) =>
                         OSTRotationFrame(insert(ost, k).log)
              /\ \A iv \in Intervals :
                     (ivs' = ivs (+) SetToBag({iv}) /\ POMInsert(iv)) =>
                         POMRotationFrame(POMinsert(pom, iv).log)
       /\ last'.op = "remove" =>
              /\ \A k \in Keys : OSTRemove(k) => OSTRotationFrame(remove(ost, k).log)
              /\ \A iv \in Intervals :
                     POMRemove(iv) => POMRotationFrame(POMremove(pom, iv).log)]_vars

(* A POM tree of six from which the remove of some interval rotates *)
(* twice; the caller is free to make that call                      *)
C23_Witness ==
    /\ obj = "POMTree" /\ last.op \notin Queries /\ Len(Content(pom)) = 6
    /\ \E iv \in Intervals : Cardinality(Rotations(POMremove(pom, iv).log)) >= 2

(* The number of links from node n up to the root *)
RECURSIVE depth(_, _)
depth(t, n) == IF n = t.root THEN 0 ELSE 1 + depth(t, parent(t, n))

(* The variant of each fix-up loop at the test recorded in e: 0 where  *)
(* the test ends the loop, else the depth of the cursor                *)
Variant(e) ==
    IF e.at = "insertFixup"
    THEN IF color(e.tree, parent(e.tree, e.cursor)) = RED THEN depth(e.tree, e.cursor) ELSE 0
    ELSE IF e.cursor # e.tree.root /\ color(e.tree, e.cursor) = BLACK
         THEN depth(e.tree, e.cursor) ELSE 0

(* The tests of the fix-up loop named loop in the history, oldest first *)
Tests(log, loop) == SelectSeq(log, LAMBDA e : e.at = loop)

(* From each test of the loop to the next the variant falls, and the *)
(* last test ends the loop                                            *)
Descends(tests) ==
    /\ \A i \in 1..(Len(tests) - 1) : Variant(tests[i]) > Variant(tests[i + 1])
    /\ tests # <<>> => Variant(tests[Len(tests)]) = 0

(* insertFixup ran in the call that returned t: its loop ended and the *)
(* root is black                                                       *)
InsertFixupEnds(t) ==
    /\ Tests(t.log, "insertFixup") # <<>>
    /\ Descends(Tests(t.log, "insertFixup"))
    /\ color(t, t.root) = BLACK

(* deleteFixup, where the call that returned t ran it, ended its loop *)
(* and left its cursor x black                                         *)
DeleteFixupEnds(t) ==
    /\ Descends(Tests(t.log, "deleteFixup"))
    /\ \A i \in DOMAIN t.log :
           t.log[i].at = "delete" =>
               (t.log[i].fix <=> Tests(t.log, "deleteFixup") # <<>>)
    /\ Tests(t.log, "deleteFixup") # <<>> =>
           color(t, Tests(t.log, "deleteFixup")[Len(Tests(t.log, "deleteFixup"))].cursor) = BLACK

(* The intervals stored in a POM tree *)
StoredIntervals(t) == {t.node[n].interval : n \in Nodes(t)}

(* C24: in both trees the loop of insertFixup ends, when z's parent is *)
(* black or z is the root, after which the root is black, and the loop *)
(* of deleteFixup ends, when x is red or the root, after which x is    *)
(* black: from one test of either loop to the next the depth of the    *)
(* cursor, counted as 0 where the test ends the loop, falls.  So it is *)
(* for the insert and the remove of every key and interval, from every *)
(* tree the callers reach.                                             *)
C24_FixupTerminates ==
    /\ \A k \in Keys \cup Stored(ost) :
           InsertFixupEnds(insert(ost, k)) /\ DeleteFixupEnds(remove(ost, k))
    /\ \A iv \in Intervals \cup StoredIntervals(pom) :
           InsertFixupEnds(POMinsert(pom, iv)) /\ DeleteFixupEnds(POMremove(pom, iv))

(* A tree from which the remove of a stored key takes deleteFixup    *)
(* twice round its loop                                              *)
C24_Witness ==
    \E k \in Stored(ost) : Len(Tests(remove(ost, k).log, "deleteFixup")) >= 3

(* node and the nodes above it, up to the root *)
RECURSIVE AncestorsAndSelf(_, _)
AncestorsAndSelf(t, node) ==
    IF node = nil THEN {} ELSE {node} \cup AncestorsAndSelf(t, parent(t, node))

(* The nodes whose stored summary is not what the rule gives from their *)
(* children                                                             *)
Stale(t) == {n \in Nodes(t) : t.node[n].data # Rule(t, n)}

(* The nodes of t whose subtree does not hold the nodes it held in the *)
(* tree before the call                                                *)
Changed(before, t) ==
    {n \in Nodes(t) : n \notin Nodes(before) \/ Subtree(t, n) # Subtree(before, n)}

(* The node the statement names as the start of updateAncestors in     *)
(* remove: the spliced node's parent, or the successor's parent, or    *)
(* the successor itself where it is the right child of the node taken  *)
(* out                                                                 *)
StartOfRemove(t, z) ==
    IF left(t, z) = nil \/ right(t, z) = nil THEN parent(t, z)
    ELSE IF POMminimum(t, right(t, z)) = right(t, z) THEN right(t, z)
    ELSE parent(t, POMminimum(t, right(t, z)))

(* updateAncestors is the last place of the history, after every test *)
(* of a fix-up loop and every rotation, and is called once            *)
UpdateLast(log) ==
    /\ log[Len(log)].at = "updateAncestors"
    /\ \A i \in 1..(Len(log) - 1) : log[i].at # "updateAncestors"

(* C21, as stated: updateAncestors starts after the fix-up, from the   *)
(* node named, and every node whose subtree changed or whose summary   *)
(* is stale is then the start node or one of its ancestors.            *)
C21_Original ==
    \A iv \in Intervals \cup StoredIntervals(pom) :
        /\ LET log == POMinsert(pom, iv).log
               e == log[Len(log)]
           IN  /\ UpdateLast(log)
               /\ e.start = newNode(pom)
               /\ Stale(e.tree) \cup Changed(pom, e.tree) \subseteq AncestorsAndSelf(e.tree, e.start)
        /\ LET log == POMremove(pom, iv).log
               e == log[Len(log)]
           IN  log # <<>> =>
                   /\ UpdateLast(log)
                   /\ e.start = StartOfRemove(pom, POMsearch(pom, pom.root, iv))
                   /\ Stale(e.tree) \cup Changed(pom, e.tree) \subseteq AncestorsAndSelf(e.tree, e.start)

(* C21: in insert and remove of a POM tree updateAncestors starts only *)
(* after insertFixup or deleteFixup has finished, from the new node or *)
(* from the node named for remove, and at that moment every node whose *)
(* stored summary is stale is the start node or one of its ancestors.  *)
(* A node whose subtree changed may lie off that path: the rotation    *)
(* that moved it has recomputed it.                                    *)
C21_Amended ==
    \A iv \in Intervals \cup StoredIntervals(pom) :
        /\ LET log == POMinsert(pom, iv).log
               e == log[Len(log)]
           IN  /\ UpdateLast(log)
               /\ e.start = newNode(pom)
               /\ Stale(e.tree) \subseteq AncestorsAndSelf(e.tree, e.start)
        /\ LET log == POMremove(pom, iv).log
               e == log[Len(log)]
           IN  log # <<>> =>
                   /\ UpdateLast(log)
                   /\ e.start = StartOfRemove(pom, POMsearch(pom, pom.root, iv))
                   /\ Stale(e.tree) \subseteq AncestorsAndSelf(e.tree, e.start)

(* A POM tree from which some remove rotates and then calls            *)
(* updateAncestors with a stale node, and with a node off the path     *)
(* from its start node whose subtree has changed                       *)
C21_Witness ==
    \E iv \in StoredIntervals(pom) :
        LET log == POMremove(pom, iv).log
            e == log[Len(log)]
        IN  /\ Rotations(log) # {}
            /\ Changed(pom, e.tree) \ AncestorsAndSelf(e.tree, e.start) # {}
            /\ Stale(e.tree) # {}

(* p is the address of a node that has not been deleted *)
Live(t, p) == p \in DOMAIN t.node

(* The root pointer, every link of every node but the sentinel, and the *)
(* child links of the sentinel hold no address of a deleted node        *)
NoFreedLinks(t) ==
    /\ Live(t, t.root)
    /\ Live(t, left(t, nil)) /\ Live(t, right(t, nil))
    /\ \A n \in Nodes(t) :
           Live(t, left(t, n)) /\ Live(t, right(t, n)) /\ Live(t, parent(t, n))

(* The places of the history from delete z on *)
AfterDelete(log) == {i \in DOMAIN log : \E j \in 1..i : log[j].at = "delete"}

(* What the code reads at the place e: the cursor of deleteFixup and *)
(* its parent, the start node of updateAncestors                     *)
ReadsLive(e) ==
    /\ e.at = "deleteFixup" => Live(e.tree, e.cursor) /\ Live(e.tree, parent(e.tree, e.cursor))
    /\ e.at = "updateAncestors" => Live(e.tree, e.start)

(* The call that went from the tree before to the tree t with z the   *)
(* node found deleted z and nothing else, or nothing where z is the   *)
(* sentinel                                                           *)
FreesOne(before, t, z) ==
    /\ DOMAIN t.node = (DOMAIN before.node) \ (IF z = nil THEN {} ELSE {z})
    /\ \A i \in DOMAIN t.log : t.log[i].at = "delete" => t.log[i].z = z /\ z # nil
    /\ z # nil => Cardinality({i \in DOMAIN t.log : t.log[i].at = "delete"}) = 1

(* From delete z to the return of the call that returned t no link but *)
(* the sentinel's parent holds a freed address, and no freed node is   *)
(* read                                                                *)
FreedUnused(t) ==
    /\ \A i \in AfterDelete(t.log) : NoFreedLinks(t.log[i].tree) /\ ReadsLive(t.log[i])
    /\ NoFreedLinks(t)

(* The sentinel's parent field holds no freed address either *)
SentinelParentLive(t) ==
    /\ \A i \in AfterDelete(t.log) : Live(t.log[i].tree, parent(t.log[i].tree, nil))
    /\ Live(t, parent(t, nil))

(* C28, as stated: a remove that finds its target frees exactly one    *)
(* node, z, and after the free no freed node can be reached from the   *)
(* root through left, right and parent links, the sentinel's included, *)
(* nor is one read.                                                    *)
C28_Original ==
    /\ \A k \in Keys \cup Stored(ost) :
           /\ FreesOne(ost, remove(ost, k), search(ost, ost.root, k))
           /\ FreedUnused(remove(ost, k))
           /\ SentinelParentLive(remove(ost, k))
    /\ \A iv \in Intervals \cup StoredIntervals(pom) :
           /\ FreesOne(pom, POMremove(pom, iv), POMsearch(pom, pom.root, iv))
           /\ FreedUnused(POMremove(pom, iv))
           /\ SentinelParentLive(POMremove(pom, iv))

(* C28: in both trees a remove that finds its target frees exactly one *)
(* node, z; after the free the root pointer and the links of every     *)
(* node but the sentinel hold no freed address, and deleteFixup, the   *)
(* size bookkeeping and updateAncestors read no freed node.  The       *)
(* sentinel's parent field may keep the address of a freed node; it is *)
(* written again before it is read.                                    *)
C28_Amended ==
    /\ \A k \in Keys \cup Stored(ost) :
           /\ FreesOne(ost, remove(ost, k), search(ost, ost.root, k))
           /\ FreedUnused(remove(ost, k))
    /\ \A iv \in Intervals \cup StoredIntervals(pom) :
           /\ FreesOne(pom, POMremove(pom, iv), POMsearch(pom, pom.root, iv))
           /\ FreedUnused(POMremove(pom, iv))

(* An order-statistic tree whose sentinel's parent field holds the    *)
(* address of a node deleted by an earlier remove, and from which a   *)
(* remove hands the sentinel to deleteFixup                           *)
C28_Witness ==
    /\ obj = "OrderStatisticTree" /\ last.op = "remove"
    /\ parent(ost, nil) = freed
    /\ \E k \in Stored(ost) :
           \E i \in DOMAIN remove(ost, k).log :
               remove(ost, k).log[i].at = "deleteFixup" /\ remove(ost, k).log[i].cursor = nil

(* A turn of the loop of generateOST is about to run *)
InLoop == obj = "JosephusPermutation" /\ frame.pc = "loop"

(* (current + m) - 1 stays within int *)
SumFits == frame.current <= INT_MAX - frame.m

(* The turn of generateOST taken from the cursor c: the (c + 1)-th    *)
(* smallest position left is recorded and removed, and the cursor is  *)
(* reduced modulo the new size                                        *)
TurnFrom(c) ==
    /\ frame'.result = Append(frame.result, Kth(keys, c + 1))
    /\ keys' = keys (-) SetToBag({Kth(keys, c + 1)})
    /\ OSTContent(ost') = Without(OSTContent(ost), c + 1)
    /\ frame'.current = IF size(ost') > 0 THEN c % size(ost') ELSE c

C27_GenerateOST ==
    obj = "JosephusPermutation" =>
        /\ frame.pc \notin {"thrown", "trapped"}
        /\ frame.pc = "loop" =>
               /\ size(ost) >= 1
               /\ Len(frame.result) + size(ost) = frame.n
               /\ 0 <= frame.current /\ frame.current < size(ost)
        /\ frame.pc \in {"naive", "returned", "done"} =>
               /\ Len(frame.result) = frame.n
               /\ {frame.result[i] : i \in 1..Len(frame.result)} = 0..(frame.n - 1)
               /\ empty(ost)

===========================================================================
